---- MODULE Spec2Model ----
(***************************************************************************)
(* A model of package autoupgrade (src/autoupgrade.go): the synchronous    *)
(* Upgrade attempt, the UpgradeBackground goroutine and its channel, the   *)
(* lazy sync.Once cache behind NewBuildInfo / DidUpgrade, and the pure     *)
(* fullPath target builder (path.Join over strings, modelled as sequences  *)
(* of one-character strings).                                              *)
(***************************************************************************)
EXTENDS Integers, Sequences, FiniteSets, TLC

----------------------------------------------------------------------------
(* Bounds of the model *)

\* number of goroutines calling an accessor of the UpgradeResult, one call
\* each, concurrently or one after the other
NumCallers == 2
\* receive operations the caller of UpgradeBackground performs on the channel
MaxRecv == 2

----------------------------------------------------------------------------
(* Strings: path.Join and path.Clean of the Go standard library, as used   *)
(* by fullPath                                                             *)

Slash == "/"
Dot == "."
At == "@"

\* the literal "latest" of Upgrade
Latest == <<"l", "a", "t", "e", "s", "t">>

\* lazybuf: after out.w--, out.w is decremented while out.w > dotdot and
\* out.index(out.w) # '/'; w is the 0-based write index into out
RECURSIVE Backtrack(_, _, _)
Backtrack(out, w, dotdot) ==
  IF w > dotdot /\ out[w + 1] # Slash
    THEN Backtrack(out, w - 1, dotdot)
    ELSE SubSeq(out, 1, w)

\* the index (0-based) at which the path element starting at r ends
RECURSIVE SegEnd(_, _)
SegEnd(p, r) ==
  IF r < Len(p) /\ p[r + 1] # Slash THEN SegEnd(p, r + 1) ELSE r

\* the main loop of path.Clean; r is the 0-based read index, out the buffer
RECURSIVE CleanLoop(_, _, _, _, _)
CleanLoop(p, rooted, r, dotdot, out) ==
  LET n == Len(p) IN
  IF r >= n THEN out
  ELSE IF p[r + 1] = Slash
    THEN CleanLoop(p, rooted, r + 1, dotdot, out)
  ELSE IF p[r + 1] = Dot /\ (r + 1 = n \/ p[r + 2] = Slash)
    THEN CleanLoop(p, rooted, r + 1, dotdot, out)
  ELSE IF p[r + 1] = Dot /\ p[r + 2] = Dot /\ (r + 2 = n \/ p[r + 3] = Slash)
    THEN IF Len(out) > dotdot
           THEN CleanLoop(p, rooted, r + 2, dotdot,
                          Backtrack(out, Len(out) - 1, dotdot))
         ELSE IF ~rooted
           THEN LET o2 == (IF Len(out) > 0 THEN Append(out, Slash) ELSE out)
                            \o <<Dot, Dot>>
                IN CleanLoop(p, rooted, r + 2, Len(o2), o2)
         ELSE CleanLoop(p, rooted, r + 2, dotdot, out)
  ELSE LET e == SegEnd(p, r)
           o1 == IF (rooted /\ Len(out) # 1) \/ (~rooted /\ Len(out) # 0)
                   THEN Append(out, Slash) ELSE out
       IN CleanLoop(p, rooted, e, dotdot, o1 \o SubSeq(p, r + 1, e))

\* path.Clean
Clean(p) ==
  IF p = <<>> THEN <<Dot>>
  ELSE LET rooted == p[1] = Slash
           out == IF rooted THEN CleanLoop(p, TRUE, 1, 1, <<Slash>>)
                            ELSE CleanLoop(p, FALSE, 0, 0, <<>>)
       IN IF out = <<>> THEN <<Dot>> ELSE out

\* the buffer path.Join builds from its elements before cleaning it
RECURSIVE JoinBuf(_, _)
JoinBuf(elems, buf) ==
  IF elems = <<>> THEN buf
  ELSE LET e == Head(elems) IN
       JoinBuf(Tail(elems),
               IF Len(buf) > 0 \/ e # <<>>
                 THEN (IF Len(buf) > 0 THEN Append(buf, Slash) ELSE buf) \o e
                 ELSE buf)

RECURSIVE TotalLen(_)
TotalLen(elems) ==
  IF elems = <<>> THEN 0 ELSE Len(Head(elems)) + TotalLen(Tail(elems))

\* path.Join
Join(elems) ==
  IF TotalLen(elems) = 0 THEN <<>> ELSE Clean(JoinBuf(elems, <<>>))

\* fullPath, had the three strings been concatenated without path.Join
fullPath_Concat(modulePath, packagePath, version) ==
  modulePath \o packagePath \o <<At>> \o version

\* fullPath(modulePath, packagePath, version)
fullPath(modulePath, packagePath, version) ==
  Join(<<modulePath, packagePath \o <<At>> \o version>>)

----------------------------------------------------------------------------
(* Values *)

Nil == "nil"

\* the version debug.ReadBuildInfo reports for a development build
Devel == "(devel)"

\* a nil *debug.BuildInfo
NilInfo == [isNil |-> TRUE, Version |-> "", Path |-> <<>>]

\* *debug.BuildInfo: Main.Version and Main.Path
Info(v, p) == [isNil |-> FALSE, Version |-> v, Path |-> p]

\* versions the running binary may carry
CurVersions == {Devel, "v1.0.0"}
\* versions the executable on disk may carry when NewBuildInfo reads it
NewVersions == {"v1.0.0", "v1.1.0"}
\* module paths (info.Main.Path) of the running binary
ModulePaths == {<<>>, <<"a", "/", "b">>}
\* packagePath arguments of Upgrade
PackagePaths == {<<>>, <<"c">>}

\* what debug.ReadBuildInfo() returns in this process: (info, ok)
BuildInfoReads ==
  {[ok |-> FALSE, info |-> NilInfo]} \cup
  {[ok |-> TRUE, info |-> Info(v, p)] : v \in CurVersions, p \in ModulePaths}

\* ctx.Err() once the context is done
CtxErrors == {"context canceled", "context deadline exceeded"}

\* &UpgradeResult{CurrentInfo: ci, ExitError: e}
UpgradeResult(ci, e) == [CurrentInfo |-> ci, ExitError |-> e]

\* no UpgradeResult (nothing returned or received yet)
NoResult == [CurrentInfo |-> NilInfo, ExitError |-> "none"]

Callers == 1 .. NumCallers

----------------------------------------------------------------------------
(* State *)

VARIABLES
  buildInfo,    \* what debug.ReadBuildInfo() returns in this process
  packagePath,  \* the packagePath argument
  ctxErr,       \* ctx.Err(): Nil until the context is done
  mode,         \* "none", "sync" (Upgrade called) or "background"
  upc,          \* position of the Upgrade call
  target,       \* the argument built for go install
  installs,     \* the targets cmd.Run was invoked with, in order
  proc,         \* the go install process
  runErr,       \* the error cmd.Run returned
  cancelRunning, \* ctx became done while the go install process ran
  upgradeRet,   \* the value Upgrade returned
  gpc,          \* position of the goroutine of UpgradeBackground
  ch,           \* the channel: buffer, closed flag
  sent,         \* Results sent on ch so far, in order
  received,     \* Results the caller received from ch, in order
  recvClosed,   \* receives that found ch closed and empty
  recvs,        \* receive operations performed
  res,          \* the UpgradeResult the caller holds
  onceDone,     \* res.once: done
  onceM,        \* res.once: holder of the mutex (0: free)
  newInfo,      \* res.newInfo
  newInfoErr,   \* res.newInfoErr
  cpc,          \* position of each accessor caller
  cop,          \* the accessor each caller is in
  execCalls,    \* invocations of os.Executable
  readCalls,    \* invocations of buildinfo.ReadFile
  nbiRet,       \* the (info, err) pairs NewBuildInfo calls returned
  duRet,        \* what DidUpgrade calls returned, and how
  fpArgs,       \* arguments of a fullPath evaluation
  fpRet         \* its result

upgradeVars == <<buildInfo, packagePath, ctxErr, mode, upc, target, installs,
                 proc, runErr, cancelRunning, upgradeRet>>
chanVars == <<gpc, ch, sent, received, recvClosed, recvs>>
lazyVars == <<onceDone, onceM, newInfo, newInfoErr, cpc, cop,
              execCalls, readCalls, nbiRet, duRet>>
pathVars == <<fpArgs, fpRet>>
vars == <<upgradeVars, chanVars, res, lazyVars, pathVars>>

NoArgs == [modulePath |-> <<>>, packagePath |-> <<>>, version |-> <<>>]

Init ==
  /\ buildInfo \in BuildInfoReads
  /\ packagePath \in PackagePaths
  /\ ctxErr = Nil
  /\ mode = "none"
  /\ upc = "idle"
  /\ target = <<>>
  /\ installs = <<>>
  /\ proc = "none"
  /\ runErr = "none"
  /\ cancelRunning = FALSE
  /\ upgradeRet = NoResult
  /\ gpc = "none"
  /\ ch = [buf |-> <<>>, closed |-> FALSE]
  /\ sent = <<>>
  /\ received = <<>>
  /\ recvClosed = 0
  /\ recvs = 0
  /\ res = NoResult
  /\ onceDone = FALSE
  /\ onceM = 0
  /\ newInfo = NilInfo
  /\ newInfoErr = Nil
  /\ cpc = [c \in Callers |-> "idle"]
  /\ cop = [c \in Callers |-> "none"]
  /\ execCalls = <<>>
  /\ readCalls = <<>>
  /\ nbiRet = {}
  /\ duRet = {}
  /\ fpArgs = NoArgs
  /\ fpRet = <<>>

----------------------------------------------------------------------------
(* The context *)

\* some code of the attempt may still look at ctx
CtxObserved ==
  \/ mode = "none"
  \/ upc \in {"entry", "run", "wait"}
  \/ gpc \in {"eval", "select"}

\* the caller cancels ctx, or its deadline passes; a cancellation no code
\* can observe any more is left out
CancelCtx ==
  /\ ctxErr = Nil
  /\ CtxObserved
  /\ \E e \in CtxErrors : ctxErr' = e
  /\ cancelRunning' = (proc = "running")
  /\ UNCHANGED <<buildInfo, packagePath, mode, upc, target, installs, proc,
                 upgradeRet, chanVars, res, lazyVars, pathVars, runErr>>

----------------------------------------------------------------------------
(* Upgrade *)

\* Upgrade returns r: to its caller, or to the select of the goroutine
UpgradeReturns(r) ==
  /\ upgradeRet' = r
  /\ upc' = "returned"
  /\ IF mode = "sync"
       THEN res' = r /\ gpc' = gpc
       ELSE res' = res /\ gpc' = "select"

\* RunResult, had Upgrade left ExitError unset
RunResult_DropErr(err) == UpgradeResult(buildInfo.info, Nil)

\* return &UpgradeResult{CurrentInfo: info, ExitError: err}
RunResult(err) == UpgradeResult(buildInfo.info, err)

\* the program calls Upgrade(ctx, packagePath) directly
UpgradeCall ==
  /\ mode = "none"
  /\ mode' = "sync"
  /\ upc' = "entry"
  /\ UNCHANGED <<cancelRunning,
                 buildInfo, packagePath, ctxErr, target, installs, proc,
                 upgradeRet, chanVars, res, lazyVars, pathVars, runErr>>

\* UpgradeGate without the check of an empty module path
UpgradeGate_NoPathCheck ==
  /\ upc = "entry"
  /\ IF ~buildInfo.ok
       THEN UpgradeReturns(UpgradeResult(NilInfo, Nil)) /\ target' = target
     ELSE IF buildInfo.info.Version = Devel
       THEN UpgradeReturns(UpgradeResult(buildInfo.info, Nil))
            /\ target' = target
     ELSE /\ target' = fullPath(buildInfo.info.Path, packagePath, Latest)
          /\ upc' = "run"
          /\ UNCHANGED <<upgradeRet, res, gpc>>
  /\ UNCHANGED <<cancelRunning,
                 buildInfo, packagePath, ctxErr, mode, installs, proc, runErr,
                 ch, sent, received, recvClosed, recvs, lazyVars, pathVars>>

\* debug.ReadBuildInfo and the checks before the install
UpgradeGate ==
  /\ upc = "entry"
  /\ IF ~buildInfo.ok
       THEN UpgradeReturns(UpgradeResult(NilInfo, Nil)) /\ target' = target
     ELSE IF buildInfo.info.Version = Devel
       THEN UpgradeReturns(UpgradeResult(buildInfo.info, Nil))
            /\ target' = target
     ELSE IF buildInfo.info.Path = <<>>
       THEN UpgradeReturns(UpgradeResult(buildInfo.info, Nil))
            /\ target' = target
     ELSE /\ target' = fullPath(buildInfo.info.Path, packagePath, Latest)
          /\ upc' = "run"
          /\ UNCHANGED <<upgradeRet, res, gpc>>
  /\ UNCHANGED <<cancelRunning,
                 buildInfo, packagePath, ctxErr, mode, installs, proc,
                 ch, sent, received, recvClosed, recvs, lazyVars, pathVars,
                 runErr>>

\* CmdStart, had a failed start been tried a second time
CmdStart_Retry ==
  /\ upc = "run"
  /\ installs' = Append(installs, target)
  /\ \/ /\ runErr' = "executable file not found"
        /\ IF installs = <<>>
             THEN UNCHANGED <<upc, upgradeRet, res, gpc>>
             ELSE UpgradeReturns(RunResult(runErr'))
        /\ proc' = proc
     \/ /\ ctxErr # Nil
        /\ runErr' = ctxErr
        /\ UpgradeReturns(RunResult(runErr'))
        /\ proc' = proc
     \/ /\ ctxErr = Nil
        /\ proc' = "running"
        /\ upc' = "wait"
        /\ UNCHANGED <<runErr, upgradeRet, res, gpc>>
  /\ UNCHANGED <<cancelRunning,
                 buildInfo, packagePath, ctxErr, mode, target,
                 ch, sent, received, recvClosed, recvs, lazyVars, pathVars>>

\* cmd.Run, first half: exec.Cmd.Start fails (go not found, ctx already
\* done) or starts the process
CmdStart ==
  /\ upc = "run"
  /\ installs' = Append(installs, target)
  /\ \/ /\ runErr' = "executable file not found"
        /\ UpgradeReturns(RunResult(runErr'))
        /\ proc' = proc
     \/ /\ ctxErr # Nil
        /\ runErr' = ctxErr
        /\ UpgradeReturns(RunResult(runErr'))
        /\ proc' = proc
     \/ /\ ctxErr = Nil
        /\ proc' = "running"
        /\ upc' = "wait"
        /\ UNCHANGED <<runErr, upgradeRet, res, gpc>>
  /\ UNCHANGED <<cancelRunning,
                 buildInfo, packagePath, ctxErr, mode, target,
                 ch, sent, received, recvClosed, recvs, lazyVars, pathVars>>

\* the go install process exits by itself
ProcExit ==
  /\ proc = "running"
  /\ \E st \in {"exit 0", "exit 1"} : proc' = st
  /\ UNCHANGED <<cancelRunning,
                 buildInfo, packagePath, ctxErr, mode, upc, target, installs,
                 upgradeRet, chanVars, res, lazyVars, pathVars, runErr>>

\* ProcKill, had the command been made with exec.Command: the process is
\* left running when ctx is done
ProcKill_NoContext ==
  /\ proc = "running"
  /\ ctxErr # Nil
  /\ UNCHANGED vars

\* exec.CommandContext kills the process once ctx is done
ProcKill ==
  /\ proc = "running"
  /\ ctxErr # Nil
  /\ proc' = "killed"
  /\ UNCHANGED <<cancelRunning,
                 buildInfo, packagePath, ctxErr, mode, upc, target, installs,
                 upgradeRet, chanVars, res, lazyVars, pathVars, runErr>>

\* the errors exec.Cmd.Wait may report for an ended process
WaitErrors ==
  CASE proc = "exit 1" -> {"exit status 1"}
    [] proc = "killed" -> {"signal: killed"}
    [] proc = "exit 0" -> IF ctxErr = Nil THEN {Nil} ELSE {Nil, ctxErr}
    [] OTHER -> {}

\* cmd.Run, second half: exec.Cmd.Wait returns, and Upgrade returns
CmdWait ==
  /\ upc = "wait"
  /\ runErr' \in WaitErrors
  /\ UpgradeReturns(RunResult(runErr'))
  /\ UNCHANGED <<cancelRunning,
                 buildInfo, packagePath, ctxErr, mode, target, installs, proc,
                 ch, sent, received, recvClosed, recvs, lazyVars, pathVars>>

----------------------------------------------------------------------------
(* UpgradeBackground *)

\* capacity of make(chan *UpgradeResult, 1)
ChanCap == 1

\* the program calls UpgradeBackground(ctx, packagePath): the channel is
\* made, the goroutine is started, the channel is returned
UpgradeBackgroundCall ==
  /\ mode = "none"
  /\ mode' = "background"
  /\ ch' = [buf |-> <<>>, closed |-> FALSE]
  /\ gpc' = "eval"
  /\ UNCHANGED <<cancelRunning,
                 buildInfo, packagePath, ctxErr, upc, target, installs, proc,
                 upgradeRet, sent, received, recvClosed, recvs, res,
                 lazyVars, pathVars, runErr>>

\* entering the select, the goroutine evaluates the operand of the send
\* case: it calls Upgrade(ctx, packagePath)
GoEvalUpgrade ==
  /\ gpc = "eval"
  /\ gpc' = "upgrade"
  /\ upc' = "entry"
  /\ UNCHANGED <<cancelRunning,
                 buildInfo, packagePath, ctxErr, mode, target, installs, proc,
                 upgradeRet, ch, sent, received, recvClosed, recvs, res,
                 lazyVars, pathVars, runErr>>

\* SelectCtxDone, had the select been entered while Upgrade still runs
SelectCtxDone_Race ==
  /\ gpc \in {"upgrade", "select"}
  /\ ctxErr # Nil
  /\ gpc' = "sendCancel"
  /\ UNCHANGED <<upgradeVars, ch, sent, received, recvClosed, recvs, res,
                 lazyVars, pathVars>>

\* SelectCtxDone, had the case returned without sending
SelectCtxDone_NoSend ==
  /\ gpc = "select"
  /\ ctxErr # Nil
  /\ gpc' = "close"
  /\ UNCHANGED <<upgradeVars, ch, sent, received, recvClosed, recvs, res,
                 lazyVars, pathVars>>

\* the select takes case <-ctx.Done()
SelectCtxDone ==
  /\ gpc = "select"
  /\ ctxErr # Nil
  /\ gpc' = "sendCancel"
  /\ UNCHANGED <<upgradeVars, ch, sent, received, recvClosed, recvs, res,
                 lazyVars, pathVars>>

\* ch <- &UpgradeResult{ExitError: ctx.Err()}
SendCancel ==
  /\ gpc = "sendCancel"
  /\ ~ch.closed
  /\ Len(ch.buf) < ChanCap
  /\ LET r == UpgradeResult(NilInfo, ctxErr) IN
       /\ ch' = [ch EXCEPT !.buf = Append(@, r)]
       /\ sent' = Append(sent, r)
  /\ gpc' = "close"
  /\ UNCHANGED <<upgradeVars, received, recvClosed, recvs, res,
                 lazyVars, pathVars>>

\* the select takes case ch <- Upgrade(ctx, packagePath)
SelectSend ==
  /\ gpc = "select"
  /\ ~ch.closed
  /\ Len(ch.buf) < ChanCap
  /\ ch' = [ch EXCEPT !.buf = Append(@, upgradeRet)]
  /\ sent' = Append(sent, upgradeRet)
  /\ gpc' = "close"
  /\ UNCHANGED <<upgradeVars, received, recvClosed, recvs, res,
                 lazyVars, pathVars>>

\* CloseCh, had the goroutine ended without the deferred close
CloseCh_NoClose ==
  /\ gpc = "close"
  /\ gpc' = "done"
  /\ UNCHANGED <<upgradeVars, ch, sent, received, recvClosed, recvs, res,
                 lazyVars, pathVars>>

\* defer close(ch)
CloseCh ==
  /\ gpc = "close"
  /\ ch' = [ch EXCEPT !.closed = TRUE]
  /\ gpc' = "done"
  /\ UNCHANGED <<upgradeVars, sent, received, recvClosed, recvs, res,
                 lazyVars, pathVars>>

\* the caller receives from the channel: a buffered Result, or the zero
\* value of a closed and drained channel; it blocks otherwise
Recv ==
  /\ mode = "background"
  /\ recvs < MaxRecv
  /\ recvs' = recvs + 1
  /\ IF ch.buf # <<>>
       THEN /\ received' = Append(received, Head(ch.buf))
            /\ ch' = [ch EXCEPT !.buf = Tail(@)]
            /\ res' = IF received = <<>> THEN Head(ch.buf) ELSE res
            /\ recvClosed' = recvClosed
       ELSE /\ ch.closed
            /\ recvClosed' = recvClosed + 1
            /\ UNCHANGED <<received, ch, res>>
  /\ UNCHANGED <<upgradeVars, gpc, sent, lazyVars, pathVars>>

----------------------------------------------------------------------------
(* The accessors of the UpgradeResult the caller holds *)

\* VersionChanged without the comparison of the versions
VersionChanged_AnyNew == ~newInfo.isNil

\* newInfo != nil && newInfo.Main.Version != u.CurrentInfo.Main.Version
VersionChanged ==
  ~newInfo.isNil /\ newInfo.Version # res.CurrentInfo.Version

\* DidUpgradeCall without the check of the development version
DidUpgradeCall_NoDevelCheck(c) ==
  /\ res # NoResult
  /\ cpc[c] = "idle"
  /\ IF res.CurrentInfo.isNil
       THEN /\ duRet' = duRet \cup {[val |-> FALSE, lazy |-> FALSE]}
            /\ cpc' = [cpc EXCEPT ![c] = "returned"]
            /\ cop' = cop
       ELSE /\ cop' = [cop EXCEPT ![c] = "DidUpgrade"]
            /\ cpc' = [cpc EXCEPT ![c] = "once"]
            /\ duRet' = duRet
  /\ UNCHANGED <<upgradeVars, chanVars, res, onceDone, onceM, newInfo,
                 newInfoErr, execCalls, readCalls, nbiRet, pathVars>>

\* c calls u.DidUpgrade(): the two early returns, or on to u.NewBuildInfo()
DidUpgradeCall(c) ==
  /\ res # NoResult
  /\ cpc[c] = "idle"
  /\ IF res.CurrentInfo.isNil \/ res.CurrentInfo.Version = Devel
       THEN /\ duRet' = duRet \cup {[val |-> FALSE, lazy |-> FALSE]}
            /\ cpc' = [cpc EXCEPT ![c] = "returned"]
            /\ cop' = cop
       ELSE /\ cop' = [cop EXCEPT ![c] = "DidUpgrade"]
            /\ cpc' = [cpc EXCEPT ![c] = "once"]
            /\ duRet' = duRet
  /\ UNCHANGED <<upgradeVars, chanVars, res, onceDone, onceM, newInfo,
                 newInfoErr, execCalls, readCalls, nbiRet, pathVars>>

\* c calls u.NewBuildInfo()
NewBuildInfoCall(c) ==
  /\ res # NoResult
  /\ cpc[c] = "idle"
  /\ cop' = [cop EXCEPT ![c] = "NewBuildInfo"]
  /\ cpc' = [cpc EXCEPT ![c] = "once"]
  /\ UNCHANGED <<upgradeVars, chanVars, res, onceDone, onceM, newInfo,
                 newInfoErr, execCalls, readCalls, nbiRet, duRet,
                 pathVars>>

\* u.once.Do: the fast path when done is set, the slow path otherwise
OnceDo(c) ==
  /\ cpc[c] = "once"
  /\ cpc' = [cpc EXCEPT ![c] = IF onceDone THEN "ret" ELSE "lock"]
  /\ UNCHANGED <<upgradeVars, chanVars, res, onceDone, onceM, newInfo,
                 newInfoErr, cop, execCalls, readCalls, nbiRet, duRet,
                 pathVars>>

\* OnceLock, had done not been looked at again under the mutex
OnceLock_NoRecheck(c) ==
  /\ cpc[c] = "lock"
  /\ onceM = 0
  /\ onceM' = c
  /\ cpc' = [cpc EXCEPT ![c] = "exec"]
  /\ UNCHANGED <<upgradeVars, chanVars, res, onceDone, newInfo, newInfoErr,
                 cop, execCalls, readCalls, nbiRet, duRet, pathVars>>

\* OnceLock, had a caller that finds the mutex held gone on without waiting
OnceLock_NoWait(c) ==
  /\ cpc[c] = "lock"
  /\ IF onceM = 0
       THEN /\ onceM' = c
            /\ cpc' = [cpc EXCEPT ![c] =
                         IF onceDone THEN "unlock" ELSE "exec"]
       ELSE /\ onceM' = onceM
            /\ cpc' = [cpc EXCEPT ![c] = "ret"]
  /\ UNCHANGED <<upgradeVars, chanVars, res, onceDone, newInfo, newInfoErr,
                 cop, execCalls, readCalls, nbiRet, duRet, pathVars>>

\* the slow path: wait for the mutex, take it, look at done again
OnceLock(c) ==
  /\ cpc[c] = "lock"
  /\ onceM = 0
  /\ onceM' = c
  /\ cpc' = [cpc EXCEPT ![c] = IF onceDone THEN "unlock" ELSE "exec"]
  /\ UNCHANGED <<upgradeVars, chanVars, res, onceDone, newInfo, newInfoErr,
                 cop, execCalls, readCalls, nbiRet, duRet, pathVars>>

\* OsExecutable, had its error been dropped instead of stored
OsExecutable_DropErr(c) ==
  /\ cpc[c] = "exec"
  /\ execCalls' = Append(execCalls, cop[c])
  /\ \/ cpc' = [cpc EXCEPT ![c] = "store"]
     \/ cpc' = [cpc EXCEPT ![c] = "read"]
  /\ UNCHANGED <<upgradeVars, chanVars, res, onceDone, onceM, newInfo,
                 newInfoErr, cop, readCalls, nbiRet, duRet, pathVars>>

\* OsExecutable, had the error been stored in u.ExitError
OsExecutable_StoresExitError(c) ==
  /\ cpc[c] = "exec"
  /\ execCalls' = Append(execCalls, cop[c])
  /\ \/ /\ res' = [res EXCEPT !.ExitError = "cannot find executable"]
        /\ cpc' = [cpc EXCEPT ![c] = "store"]
     \/ /\ res' = res
        /\ cpc' = [cpc EXCEPT ![c] = "read"]
  /\ UNCHANGED <<upgradeVars, chanVars, onceDone, onceM, newInfo, newInfoErr,
                 cop, readCalls, nbiRet, duRet, pathVars>>

\* execPath, err := os.Executable(); on an error it is stored and the
\* function returns
OsExecutable(c) ==
  /\ cpc[c] = "exec"
  /\ execCalls' = Append(execCalls, cop[c])
  /\ \/ /\ newInfoErr' = "cannot find executable"
        /\ cpc' = [cpc EXCEPT ![c] = "store"]
     \/ /\ newInfoErr' = newInfoErr
        /\ cpc' = [cpc EXCEPT ![c] = "read"]
  /\ UNCHANGED <<upgradeVars, chanVars, res, onceDone, onceM, newInfo,
                 cop, readCalls, nbiRet, duRet, pathVars>>

\* what buildinfo.ReadFile may return: (info, nil) or (nil, err)
ReadFileResults ==
  {[info |-> Info(v, <<"a", "/", "b">>), err |-> Nil] : v \in NewVersions}
  \cup {[info |-> NilInfo, err |-> "cannot read build info"]}

\* u.newInfo, u.newInfoErr = buildinfo.ReadFile(execPath)
ReadFile(c) ==
  /\ cpc[c] = "read"
  /\ readCalls' = Append(readCalls, cop[c])
  /\ \E r \in ReadFileResults :
       /\ newInfo' = r.info
       /\ newInfoErr' = r.err
  /\ cpc' = [cpc EXCEPT ![c] = "store"]
  /\ UNCHANGED <<upgradeVars, chanVars, res, onceDone, onceM,
                 cop, execCalls, nbiRet, duRet, pathVars>>

\* the function returned: done is set
OnceStore(c) ==
  /\ cpc[c] = "store"
  /\ onceDone' = TRUE
  /\ cpc' = [cpc EXCEPT ![c] = "unlock"]
  /\ UNCHANGED <<upgradeVars, chanVars, res, onceM, newInfo, newInfoErr,
                 cop, execCalls, readCalls, nbiRet, duRet, pathVars>>

\* OnceUnlock, had the mutex been left locked
OnceUnlock_NoRelease(c) ==
  /\ cpc[c] = "unlock"
  /\ cpc' = [cpc EXCEPT ![c] = "ret"]
  /\ UNCHANGED <<upgradeVars, chanVars, res, onceDone, onceM, newInfo,
                 newInfoErr, cop, execCalls, readCalls, nbiRet, duRet,
                 pathVars>>

\* the mutex is released
OnceUnlock(c) ==
  /\ cpc[c] = "unlock"
  /\ onceM' = 0
  /\ cpc' = [cpc EXCEPT ![c] = "ret"]
  /\ UNCHANGED <<upgradeVars, chanVars, res, onceDone, newInfo, newInfoErr,
                 cop, execCalls, readCalls, nbiRet, duRet, pathVars>>

\* return u.newInfo, u.newInfoErr; in DidUpgrade, the comparison follows
AccessorReturn(c) ==
  /\ cpc[c] = "ret"
  /\ IF cop[c] = "NewBuildInfo"
       THEN /\ nbiRet' = nbiRet \cup {[info |-> newInfo, err |-> newInfoErr]}
            /\ duRet' = duRet
       ELSE /\ duRet' = duRet \cup {[val |-> VersionChanged, lazy |-> TRUE]}
            /\ nbiRet' = nbiRet
  /\ cpc' = [cpc EXCEPT ![c] = "returned"]
  /\ cop' = [cop EXCEPT ![c] = "none"]
  /\ UNCHANGED <<upgradeVars, chanVars, res, onceDone, onceM, newInfo,
                 newInfoErr, execCalls, readCalls, pathVars>>

----------------------------------------------------------------------------
(* The program *)

Next ==
  \/ CancelCtx
  \/ UpgradeCall
  \/ UpgradeGate
  \/ CmdStart
  \/ ProcExit
  \/ ProcKill
  \/ CmdWait
  \/ UpgradeBackgroundCall
  \/ GoEvalUpgrade
  \/ SelectCtxDone
  \/ SendCancel
  \/ SelectSend
  \/ CloseCh
  \/ Recv
  \/ \E c \in Callers : DidUpgradeCall(c)
  \/ \E c \in Callers : NewBuildInfoCall(c)
  \/ \E c \in Callers : OnceDo(c)
  \/ \E c \in Callers : OnceLock(c)
  \/ \E c \in Callers : OsExecutable(c)
  \/ \E c \in Callers : ReadFile(c)
  \/ \E c \in Callers : OnceStore(c)
  \/ \E c \in Callers : OnceUnlock(c)
  \/ \E c \in Callers : AccessorReturn(c)

Spec == Init /\ [][Next]_vars

\* the steps of the goroutine that runs Upgrade, and of the go install
\* process, which the scheduler and the operating system keep taking; the
\* installer is assumed to exit, or to be killed once ctx is done
FairSpec ==
  /\ Spec
  /\ WF_vars(GoEvalUpgrade)
  /\ WF_vars(UpgradeGate)
  /\ WF_vars(CmdStart)
  /\ WF_vars(ProcExit \/ ProcKill)
  /\ WF_vars(CmdWait)
  /\ WF_vars(SelectCtxDone \/ SelectSend)
  /\ WF_vars(SendCancel)
  /\ WF_vars(CloseCh)

\* the same steps of the code, and the kill exec.CommandContext performs
\* once ctx is done; nothing is assumed about an installer left to itself,
\* which may run forever
CancelFairSpec ==
  /\ Spec
  /\ WF_vars(GoEvalUpgrade)
  /\ WF_vars(UpgradeGate)
  /\ WF_vars(CmdStart)
  /\ WF_vars(ProcKill)
  /\ WF_vars(CmdWait)
  /\ WF_vars(SelectCtxDone \/ SelectSend)
  /\ WF_vars(SendCancel)
  /\ WF_vars(CloseCh)

\* the ways a go install that was started can have ended, with the error
\* cmd.Run returns for each
RunOutcomes ==
  {[proc |-> "none", err |-> "executable file not found"],
   [proc |-> "exit 0", err |-> Nil],
   [proc |-> "exit 1", err |-> "exit status 1"]}

\* the accessors on their own: Upgrade, called directly with a context that
\* is never done, has just returned its Result to the caller
HandedOverInit ==
  /\ buildInfo \in BuildInfoReads
  /\ packagePath \in PackagePaths
  /\ ctxErr = Nil
  /\ cancelRunning = FALSE
  /\ mode = "sync"
  /\ upc = "returned"
  /\ IF ~buildInfo.ok \/ buildInfo.info.Version = Devel
        \/ buildInfo.info.Path = <<>>
       THEN /\ target = <<>>
            /\ installs = <<>>
            /\ proc = "none"
            /\ runErr = "none"
            /\ upgradeRet = UpgradeResult(buildInfo.info, Nil)
       ELSE /\ target = fullPath(buildInfo.info.Path, packagePath, Latest)
            /\ installs = <<target>>
            /\ \E o \in RunOutcomes :
                 /\ proc = o.proc
                 /\ runErr = o.err
                 /\ upgradeRet = RunResult(o.err)
  /\ res = upgradeRet
  /\ gpc = "none"
  /\ ch = [buf |-> <<>>, closed |-> FALSE]
  /\ sent = <<>>
  /\ received = <<>>
  /\ recvClosed = 0
  /\ recvs = 0
  /\ onceDone = FALSE
  /\ onceM = 0
  /\ newInfo = NilInfo
  /\ newInfoErr = Nil
  /\ cpc = [c \in Callers |-> "idle"]
  /\ cop = [c \in Callers |-> "none"]
  /\ execCalls = <<>>
  /\ readCalls = <<>>
  /\ nbiRet = {}
  /\ duRet = {}
  /\ fpArgs = NoArgs
  /\ fpRet = <<>>

AccessorNext ==
  \/ \E c \in Callers : DidUpgradeCall(c)
  \/ \E c \in Callers : NewBuildInfoCall(c)
  \/ \E c \in Callers : OnceDo(c)
  \/ \E c \in Callers : OnceLock(c)
  \/ \E c \in Callers : OsExecutable(c)
  \/ \E c \in Callers : ReadFile(c)
  \/ \E c \in Callers : OnceStore(c)
  \/ \E c \in Callers : OnceUnlock(c)
  \/ \E c \in Callers : AccessorReturn(c)

\* every goroutine inside an accessor keeps taking its steps; os.Executable
\* and buildinfo.ReadFile always return
AccessorFairSpec ==
  /\ HandedOverInit
  /\ [][AccessorNext]_vars
  /\ \A c \in Callers :
       /\ WF_vars(OnceDo(c))
       /\ WF_vars(OnceLock(c))
       /\ WF_vars(OsExecutable(c))
       /\ WF_vars(ReadFile(c))
       /\ WF_vars(OnceStore(c))
       /\ WF_vars(OnceUnlock(c))
       /\ WF_vars(AccessorReturn(c))

----------------------------------------------------------------------------
(* fullPath on its own: the arguments are drawn from bounded sets of       *)
(* strings and the function is applied to them                             *)

\* longest packagePath argument
MaxPathLen == 3

\* characters of packagePath arguments
PathChars == {"c", Slash, Dot}

\* all strings over PathChars of length at most n
RECURSIVE StringsUpTo(_)
StringsUpTo(n) ==
  IF n = 0 THEN {<<>>}
  ELSE LET shorter == StringsUpTo(n - 1) IN
       shorter \cup {Append(w, ch1) : w \in shorter, ch1 \in PathChars}

FpModulePaths == {<<>>, <<"a">>, <<"a", "/", "b">>}
FpVersions == {Latest, <<"v", "1", ".", "2", ".", "3">>}

\* the program has not started; only fullPath is exercised
PathInit ==
  /\ buildInfo = [ok |-> FALSE, info |-> NilInfo]
  /\ packagePath = <<>>
  /\ ctxErr = Nil
  /\ mode = "none"
  /\ upc = "idle"
  /\ target = <<>>
  /\ installs = <<>>
  /\ proc = "none"
  /\ runErr = "none"
  /\ cancelRunning = FALSE
  /\ upgradeRet = NoResult
  /\ gpc = "none"
  /\ ch = [buf |-> <<>>, closed |-> FALSE]
  /\ sent = <<>>
  /\ received = <<>>
  /\ recvClosed = 0
  /\ recvs = 0
  /\ res = NoResult
  /\ onceDone = FALSE
  /\ onceM = 0
  /\ newInfo = NilInfo
  /\ newInfoErr = Nil
  /\ cpc = [c \in Callers |-> "idle"]
  /\ cop = [c \in Callers |-> "none"]
  /\ execCalls = <<>>
  /\ readCalls = <<>>
  /\ nbiRet = {}
  /\ duRet = {}
  /\ fpArgs \in [modulePath : FpModulePaths,
                 packagePath : StringsUpTo(MaxPathLen),
                 version : FpVersions]
  /\ fpRet = <<>>

\* ret := fullPath(modulePath, packagePath, version)
FullPathCall ==
  /\ fpRet = <<>>
  /\ fpRet' = fullPath(fpArgs.modulePath, fpArgs.packagePath, fpArgs.version)
  /\ UNCHANGED <<upgradeVars, chanVars, res, lazyVars, fpArgs>>

PathNext == FullPathCall

PathSpec == PathInit /\ [][PathNext]_vars

----------------------------------------------------------------------------
(* Properties *)

\* the version gate of Upgrade says skip
GateSkips ==
  \/ ~buildInfo.ok
  \/ buildInfo.info.Version = Devel
  \/ buildInfo.info.Path = <<>>

\* C1: at most one Result is ever sent on the channel of UpgradeBackground,
\* the channel is closed only after that Result was sent, and a receiver
\* never receives a second Result nor finds the channel closed before it
\* received the one Result.
C1_SingleSendThenClose ==
  /\ Len(sent) <= 1
  /\ ch.closed => Len(sent) = 1
  /\ Len(received) <= 1
  /\ recvClosed > 0 => Len(received) = 1
  /\ Len(ch.buf) + Len(received) = Len(sent)

\* C1 witness: the context was canceled while go install ran, the
\* cancellation Result was received and then the channel was found closed
C1_Witness ==
  /\ mode = "background"
  /\ proc = "killed"
  /\ received = <<UpgradeResult(NilInfo, "context canceled")>>
  /\ recvClosed > 0

\* C2: under fair scheduling, with an installer that exits or is killed, every
\* call of UpgradeBackground leads to one Result sent, the channel closed and
\* the goroutine finished.
C2_EventuallySentAndClosed ==
  (mode = "background") ~> (gpc = "done" /\ ch.closed /\ Len(sent) = 1)

\* C2 witness: the goroutine finished after a cancellation that killed the
\* installer
C2_Witness ==
  /\ mode = "background"
  /\ gpc = "done"
  /\ ch.closed
  /\ proc = "killed"
  /\ ctxErr # Nil

\* C3: over the lifetime of an UpgradeResult, os.Executable and
\* buildinfo.ReadFile are each invoked at most once, however many
\* NewBuildInfo and DidUpgrade calls are made on it.
C3_AtMostOneResolution ==
  Len(execCalls) <= 1 /\ Len(readCalls) <= 1

\* C3 witness: all callers completed their calls, NewBuildInfo and
\* DidUpgrade among them, and the reader was invoked
C3_Witness ==
  /\ \A c \in Callers : cpc[c] = "returned"
  /\ Len(readCalls) = 1
  /\ nbiRet # {}
  /\ \E d \in duRet : d.lazy

\* C4: every NewBuildInfo call returns the pair the single resolution
\* produced, a failure included, and never the unresolved (nil, nil) pair.
C4_SameCachedPair ==
  \A r \in nbiRet :
    /\ onceDone
    /\ r.info = newInfo
    /\ r.err = newInfoErr
    /\ r.info.isNil # (r.err = Nil)
    /\ \A q \in nbiRet : q.info = r.info /\ q.err = r.err

\* C4 witness: all callers completed their calls, every one of them a
\* NewBuildInfo call, and got the error of the failed resolution
C4_Witness ==
  /\ newInfoErr # Nil
  /\ \A c \in Callers : cpc[c] = "returned"
  /\ duRet = {}
  /\ nbiRet # {}

\* C5: when the gate says skip, Upgrade never invokes the installer and
\* returns a Result without ExitError, and without CurrentInfo exactly when
\* the build information is unreadable.
C5_SkipNeverInstalls ==
  GateSkips =>
    /\ installs = <<>>
    /\ proc = "none"
    /\ upc = "returned" =>
         /\ upgradeRet.ExitError = Nil
         /\ upgradeRet.CurrentInfo =
              (IF buildInfo.ok THEN buildInfo.info ELSE NilInfo)

\* C5 witness: Upgrade returned for a released version with an empty module
\* path
C5_Witness ==
  /\ upc = "returned"
  /\ buildInfo.ok
  /\ buildInfo.info.Version # Devel
  /\ buildInfo.info.Path = <<>>

\* C6: on a Result without CurrentInfo, or with the development version,
\* DidUpgrade returns false and invokes neither os.Executable nor
\* buildinfo.ReadFile.
C6_DidUpgradeEarlyFalse ==
  (res # NoResult
   /\ (res.CurrentInfo.isNil \/ res.CurrentInfo.Version = Devel)) =>
    /\ \A d \in duRet : ~d.val /\ ~d.lazy
    /\ \A c \in Callers : cop[c] # "DidUpgrade"
    /\ \A i \in 1 .. Len(execCalls) : execCalls[i] # "DidUpgrade"
    /\ \A i \in 1 .. Len(readCalls) : readCalls[i] # "DidUpgrade"

\* C6 witness: DidUpgrade returned on a development build although
\* NewBuildInfo had read another version
C6_Witness ==
  /\ ~res.CurrentInfo.isNil
  /\ res.CurrentInfo.Version = Devel
  /\ onceDone
  /\ newInfo.Version = "v1.1.0"
  /\ duRet # {}
  /\ nbiRet # {}

\* C7: when Upgrade ran the installer, the Result it returns carries the
\* build information read and exactly the error cmd.Run returned: nil only
\* for an installer that exited successfully.
C7_ExitErrorIsRunError ==
  (upc = "returned" /\ installs # <<>>) =>
    /\ upgradeRet.CurrentInfo = buildInfo.info
    /\ upgradeRet.ExitError = runErr
    /\ runErr # "none"
    /\ runErr = Nil => proc = "exit 0"
    /\ proc = "exit 1" => runErr = "exit status 1"
    /\ proc = "none" => runErr \in {"executable file not found"} \cup CtxErrors

\* C7 witness: Upgrade returned after go install failed
C7_Witness ==
  /\ upc = "returned"
  /\ proc = "exit 1"
  /\ upgradeRet.ExitError = "exit status 1"

\* C8 as claimed: DidUpgrade returns false on every Result whose ExitError
\* is non-nil.
C8_FalseWhenFailed ==
  (res # NoResult /\ res.ExitError # Nil) => \A d \in duRet : ~d.val

C10_RootPackageNoSeparator ==
  (fpRet # <<>> /\ fpArgs.packagePath = <<>>)
    => fpRet = fpArgs.modulePath \o <<At>> \o fpArgs.version

\* the elements of a slash-separated path, in order
RECURSIVE Segments(_)
Segments(p) ==
  LET e == SegEnd(p, 0) IN
  IF e >= Len(p) THEN <<p>>
  ELSE <<SubSeq(p, 1, e)>> \o Segments(SubSeq(p, e + 2, Len(p)))

\* a path made of clean segments: none is empty, "." or ".."
CleanSegments(p) ==
  \A i \in 1 .. Len(Segments(p)) :
    Segments(p)[i] \notin {<<>>, <<Dot>>, <<Dot, Dot>>}

\* C11: for a non-empty module path and a non-empty packagePath, both made of
\* clean segments, fullPath returns modulePath/packagePath@version.
C11_SubPackageJoined ==
  (fpRet # <<>>
   /\ fpArgs.modulePath # <<>> /\ CleanSegments(fpArgs.modulePath)
   /\ fpArgs.packagePath # <<>> /\ CleanSegments(fpArgs.packagePath))
    => fpRet = fpArgs.modulePath \o <<Slash>> \o fpArgs.packagePath
                 \o <<At>> \o fpArgs.version

\* C11 witness: fullPath("a/b", "c/c", "latest") was evaluated
C11_Witness ==
  /\ fpArgs = [modulePath |-> <<"a", "/", "b">>,
               packagePath |-> <<"c", "/", "c">>,
               version |-> Latest]
  /\ fpRet = <<"a", "/", "b", "/", "c", "/", "c", "@">> \o Latest

\* C12 as claimed: in every Result handed to a caller, by Upgrade or through
\* the channel of UpgradeBackground, CurrentInfo is absent exactly when
\* debug.ReadBuildInfo could not read the build information.
C12_CurrentInfoAbsentIffUnreadable ==
  res # NoResult => (res.CurrentInfo.isNil <=> ~buildInfo.ok)

\* cmd.Run was invoked and returned an error: the install step failed or was
\* canceled
InstallFailedOrCanceled == runErr \notin {"none", Nil}

\* C13 as claimed: in every Result handed to a caller, ExitError is non-nil
\* exactly when the install step ran and failed, or was canceled.
C13_ExitErrorIffInstallFailed ==
  res # NoResult => (res.ExitError # Nil <=> InstallFailedOrCanceled)

\* C14 as claimed: when ctx became done while the go install process was
\* running, the Result Upgrade returns has a non-nil ExitError.
C14_CanceledRunYieldsError ==
  (cancelRunning /\ upc = "returned") => upgradeRet.ExitError # Nil

\* C14, amended: when ctx becomes done while the go install process is
\* running, the process is killed unless it exits by itself first, and
\* Upgrade returns; the ExitError of its Result is nil only if the process
\* exited successfully by itself, and is the error of the killed process if
\* it was killed.
C14_CanceledRunEndsAndReturns ==
  /\ cancelRunning ~> (upc = "returned" /\ proc # "running")
  /\ [](cancelRunning /\ upc = "returned" =>
          /\ upgradeRet.ExitError = runErr
          /\ proc = "killed" => runErr = "signal: killed"
          /\ proc = "exit 1" => runErr = "exit status 1"
          /\ runErr = Nil => proc = "exit 0")

\* C14 witness: the deadline passed while go install ran, the process was
\* killed and Upgrade returned the error of the killed process
C14_Witness ==
  /\ cancelRunning
  /\ ctxErr = "context deadline exceeded"
  /\ proc = "killed"
  /\ upc = "returned"
  /\ upgradeRet.ExitError = "signal: killed"

\* C15: once a Result is handed to a caller, no accessor call changes its
\* CurrentInfo or ExitError; the lazy fields change only until the resolution
\* is done, and never after.
C15_ResultFieldsFrozen ==
  [][/\ res # NoResult => res' = res
     /\ onceDone => /\ onceDone'
                    /\ newInfo' = newInfo
                    /\ newInfoErr' = newInfoErr
     /\ (newInfo' # newInfo \/ newInfoErr' # newInfoErr) =>
          \E c \in Callers : onceM = c /\ cpc[c] \in {"exec", "read"}]_vars

\* C15 witness: a failed resolution is cached on the Result of an install
\* that succeeded, and every accessor call has returned
C15_Witness ==
  /\ res # NoResult
  /\ ~res.CurrentInfo.isNil
  /\ res.ExitError = Nil
  /\ installs # <<>>
  /\ onceDone
  /\ newInfoErr # Nil
  /\ \A c \in Callers : cpc[c] = "returned"

\* C16: an Upgrade call that passes the gate invokes the installer exactly
\* once, with the target built from the module path of the build
\* information, the packagePath argument and "latest"; there is never a
\* second invocation, whatever the first one returned.
C16_InstallerInvokedOnce ==
  /\ Len(installs) <= 1
  /\ upc \in {"idle", "entry"} => installs = <<>>
  /\ (upc \in {"wait", "returned"} /\ ~GateSkips) => Len(installs) = 1
  /\ \A i \in 1 .. Len(installs) :
       installs[i] = fullPath(buildInfo.info.Path, packagePath, Latest)

\* C16 witness: Upgrade returned after its one installer invocation, for
\* a/b/c@latest, ended in a cancellation
C16_Witness ==
  /\ upc = "returned"
  /\ installs = << <<"a", "/", "b", "/", "c", "@">> \o Latest >>
  /\ proc = "killed"
  /\ upgradeRet.ExitError = "signal: killed"

\* C17 as claimed: DidUpgrade returns true only on the Result of an attempt
\* that invoked the installer; it returns false whenever no install was
\* attempted.
C17_TrueOnlyAfterInstall ==
  (\E d \in duRet : d.val) => installs # <<>>

\* C18: UpgradeBackground sends nothing on the channel, the cancellation
\* Result included, before its Upgrade call has returned; no Result is sent
\* or received while the go install process of that call is running.
C18_SendAfterUpgradeReturned ==
  /\ gpc \in {"sendCancel", "close", "done"} => upc = "returned"
  /\ (sent # <<>> \/ received # <<>> \/ ch.buf # <<>>) =>
       upc = "returned" /\ proc # "running"
  /\ (mode = "background" /\ res # NoResult) =>
       upc = "returned" /\ proc # "running"

\* C18 witness: ctx was canceled while go install ran; the cancellation
\* Result was sent once the process was killed and Upgrade had returned
C18_Witness ==
  /\ cancelRunning
  /\ proc = "killed"
  /\ upc = "returned"
  /\ sent = <<UpgradeResult(NilInfo, ctxErr)>>
  /\ received = sent

\* C19: when a DidUpgrade call returned true, every NewBuildInfo call
\* returns a build information with a nil error, whose version differs from
\* CurrentInfo's; once the resolution is done, exactly one of the cached
\* build information and the cached error is non-nil.
C19_TrueImpliesNewInfo ==
  /\ (\E d \in duRet : d.val) =>
       /\ onceDone /\ ~newInfo.isNil /\ newInfoErr = Nil
       /\ newInfo.Version # res.CurrentInfo.Version
       /\ \A r \in nbiRet :
            /\ ~r.info.isNil
            /\ r.err = Nil
            /\ r.info.Version # res.CurrentInfo.Version
  /\ onceDone => (newInfo.isNil <=> newInfoErr # Nil)
  /\ \A r \in nbiRet : r.info.isNil <=> r.err # Nil

\* C19 witness: DidUpgrade returned true and NewBuildInfo returned v1.1.0 on
\* a Result of v1.0.0
C19_Witness ==
  /\ \E d \in duRet : d.val
  /\ res.CurrentInfo.Version = "v1.0.0"
  /\ \E r \in nbiRet : r.info.Version = "v1.1.0" /\ r.err = Nil

\* C20: with os.Executable and buildinfo.ReadFile returning and fair
\* scheduling, every NewBuildInfo and DidUpgrade call eventually returns,
\* the calls waiting for a resolution in progress included.
C20_AccessorsReturn ==
  \A c \in Callers : (cpc[c] \notin {"idle", "returned"}) ~>
                       (cpc[c] = "returned")

\* C20 witness: every caller has returned, from NewBuildInfo and from a
\* DidUpgrade that went through the resolution
C20_Witness ==
  /\ \A c \in Callers : cpc[c] = "returned"
  /\ onceDone
  /\ onceM = 0
  /\ nbiRet # {}
  /\ \E d \in duRet : d.lazy

====
